---- MODULE Spec2Model ----
(***************************************************************************)
(* Model of caikit/core/model_management/model_trainer_base.py:            *)
(* TrainingStatus, ModelFutureBase (composite id, save path injection)     *)
(* and ModelTrainerBase.get_trainer_name.                                   *)
(*                                                                         *)
(* A Python str is a sequence of one-character strings.  Optional[str] is  *)
(* a record [some, s]; a call that may raise returns a record              *)
(* [ok, val, err].                                                         *)
(***************************************************************************)
EXTENDS Naturals, Sequences, FiniteSets

VARIABLES
    futures,           \* the ModelFuture objects built so far, in creation order
    status,            \* backend-owned TrainingStatus of each future's job
    cancel_requested,  \* backend-owned: termination of the job was requested
    wait_pc,           \* per caller: "idle", "waiting" (blocked in wait) or "returned"
    lastCall           \* the last API call made and what it returned

vars == <<futures, status, cancel_requested, wait_pc, lastCall>>

-----------------------------------------------------------------------------
(* Bounds of the model *)

MaxNameLen == 1
MaxJobLen == 1
MaxPathLen == 4
MaxIdLen == 4
MaxFutures == 2
NumWaiters == 2

-----------------------------------------------------------------------------
(* Strings *)

\* all strings over an alphabet up to a length
Strs(alphabet, n) == UNION {[1..k -> alphabet] : k \in 0..n}

None == [some |-> FALSE, s |-> <<>>]
Some(str) == [some |-> TRUE, s |-> str]

Ok(v) == [ok |-> TRUE, val |-> v, err |-> "none"]
Raise(e) == [ok |-> FALSE, val |-> <<>>, err |-> e]

SEP == "/"

\* s.startswith(c) / s.endswith(c) for a one-character c
startswith(s, c) == Len(s) > 0 /\ s[1] = c
endswith(s, c) == Len(s) > 0 /\ s[Len(s)] = c

\* python: sub in s
RECURSIVE str_in(_, _)
str_in(sub, s) ==
    IF Len(sub) > Len(s) THEN FALSE
    ELSE IF SubSeq(s, 1, Len(sub)) = sub THEN TRUE
    ELSE IF s = <<>> THEN FALSE
    ELSE str_in(sub, Tail(s))

\* python: s.split(d) for a one-character d; always at least one part
RECURSIVE str_split(_, _)
str_split(s, d) ==
    IF \A i \in 1..Len(s) : s[i] # d THEN <<s>>
    ELSE LET i == CHOOSE k \in 1..Len(s) :
                      s[k] = d /\ \A m \in 1..(k - 1) : s[m] # d
         IN <<SubSeq(s, 1, i - 1)>> \o str_split(SubSeq(s, i + 1, Len(s)), d)

\* python: d.join(parts)
RECURSIVE str_join(_, _)
str_join(d, parts) ==
    IF parts = <<>> THEN <<>>
    ELSE IF Len(parts) = 1 THEN parts[1]
    ELSE parts[1] \o <<d>> \o str_join(d, Tail(parts))

\* python: s.rstrip("/")
RECURSIVE rstrip_sep(_)
rstrip_sep(s) ==
    IF endswith(s, SEP) THEN rstrip_sep(SubSeq(s, 1, Len(s) - 1)) ELSE s

\* posixpath.split: (head, tail), tail the part after the last separator
os_path_split(p) ==
    LET seps == {k \in 1..Len(p) : p[k] = SEP}
        i == IF seps = {} THEN 0 ELSE CHOOSE k \in seps : \A m \in seps : m <= k
        head == SubSeq(p, 1, i)
        tail == SubSeq(p, i + 1, Len(p))
    IN IF head # <<>> /\ (\E k \in 1..Len(head) : head[k] # SEP)
       THEN <<rstrip_sep(head), tail>>
       ELSE <<head, tail>>

\* posixpath.join(a, *p)
RECURSIVE os_path_join(_, _)
os_path_join(a, p) ==
    IF p = <<>> THEN a
    ELSE LET b == Head(p)
             path == IF startswith(b, SEP) THEN b
                     ELSE IF a = <<>> \/ endswith(a, SEP) THEN a \o b
                     ELSE a \o <<SEP>> \o b
         IN os_path_join(path, Tail(p))

-----------------------------------------------------------------------------
(* ReversibleHasher: a character substitution into an alphabet without the *)
(* id delimiter                                                            *)

NameChars == {"a", ":"}
TokenChars == {"x", "y"}

EncodeChar(c) == IF c = "a" THEN "x" ELSE "y"
DecodeChar(c) == IF c = "x" THEN "a" ELSE ":"

ReversibleHasher_hash(val) == [i \in 1..Len(val) |-> EncodeChar(val[i])]

ReversibleHasher_reverse_hash(hash_val) ==
    IF \A i \in 1..Len(hash_val) : hash_val[i] \in TokenChars
    THEN Ok([i \in 1..Len(hash_val) |-> DecodeChar(hash_val[i])])
    ELSE Raise("InvalidToken")

-----------------------------------------------------------------------------
(* TrainingStatus *)

QUEUED == 1
RUNNING == 2
COMPLETED == 3
CANCELED == 4
ERRORED == 5

TrainingStatus == {QUEUED, RUNNING, COMPLETED, CANCELED, ERRORED}

\* variants of is_terminal with one member misclassified
is_terminal_not_queued(self) == self # QUEUED
is_terminal_no_completed(self) == self \in {CANCELED, ERRORED}
is_terminal_only_completed(self) == self = COMPLETED
is_terminal_no_errored(self) == self \in {COMPLETED, CANCELED}

is_terminal(self) == self \in {COMPLETED, CANCELED, ERRORED}

-----------------------------------------------------------------------------
(* ModelFutureBase *)

ID_DELIMITER == ":"

\* variant: the id is put after the leaf instead of before it
_save_path_with_id_after_leaf(save_path, save_with_id, training_id) ==
    IF ~save_path.some THEN save_path
    ELSE IF ~save_with_id \/ str_in(training_id, save_path.s) THEN save_path
    ELSE LET path_parts == os_path_split(save_path.s)
         IN Some(os_path_join(path_parts[1], <<path_parts[2], training_id>>))

\* variant: the id counts as present only as a whole path segment
_save_path_with_id_segment(save_path, save_with_id, training_id) ==
    IF ~save_path.some THEN save_path
    ELSE IF \/ ~save_with_id
            \/ \E k \in 1..Len(str_split(save_path.s, SEP)) :
                   str_split(save_path.s, SEP)[k] = training_id
         THEN save_path
    ELSE LET path_parts == os_path_split(save_path.s)
         IN Some(os_path_join(path_parts[1], <<training_id, path_parts[2]>>))

_save_path_with_id(save_path, save_with_id, training_id) ==
    IF ~save_path.some THEN save_path
    ELSE IF ~save_with_id \/ str_in(training_id, save_path.s) THEN save_path
    ELSE LET path_parts == os_path_split(save_path.s)
         IN Some(os_path_join(path_parts[1], <<training_id, path_parts[2]>>))

\* variant: the two halves are concatenated without the delimiter
MakeId_no_delimiter(parent_name, training_id) ==
    ReversibleHasher_hash(parent_name) \o training_id

MakeId(parent_name, training_id) ==
    str_join(ID_DELIMITER, <<ReversibleHasher_hash(parent_name), training_id>>)

ModelFutureBase_init(parent_name, training_id, save_with_id, save_path) ==
    LET _id == MakeId(parent_name, training_id)
    IN [parent_name |-> parent_name,
        training_id |-> training_id,
        save_with_id |-> save_with_id,
        base_path |-> save_path,
        _id |-> _id,
        _save_path |-> _save_path_with_id(save_path, save_with_id, _id)]

id(f) == futures[f]._id

\* variant: the path is exposed only once the model has been saved
save_path_when_completed(f) ==
    IF status[f] = COMPLETED THEN futures[f]._save_path ELSE None

save_path(f) == futures[f]._save_path

-----------------------------------------------------------------------------
(* ModelTrainerBase *)

\* variant: the last segment is decoded instead of the first
get_trainer_name_last_segment(training_id) ==
    LET parts == str_split(training_id, ID_DELIMITER)
    IN ReversibleHasher_reverse_hash(parts[Len(parts)])

\* variant: an id without the delimiter is rejected before decoding
get_trainer_name_checked(training_id) ==
    IF \A i \in 1..Len(training_id) : training_id[i] # ID_DELIMITER
    THEN Raise("MalformedId")
    ELSE ReversibleHasher_reverse_hash(str_split(training_id, ID_DELIMITER)[1])

get_trainer_name(training_id) ==
    ReversibleHasher_reverse_hash(str_split(training_id, ID_DELIMITER)[1])

-----------------------------------------------------------------------------
(* Inputs *)

JobChars == {":", "/", "x"}
PathChars == {"/", ":", "x"}
IdChars == {"x", ":", "/"}

Names == Strs(NameChars, MaxNameLen)
JobIds == Strs(JobChars, MaxJobLen)
Paths == {None} \cup {Some(p) : p \in Strs(PathChars, MaxPathLen)}
LookupIds == Strs(IdChars, MaxIdLen)
Waiters == 1..NumWaiters

\* the save paths a job of the lifecycle specification is started with
JobPaths == {None, Some(<<"x", "/", "x">>)}

NoCall == [op |-> "none", fut |-> 0, arg |-> <<>>, res |-> Ok(<<>>)]

Init ==
    /\ futures = <<>>
    /\ status = <<>>
    /\ cancel_requested = <<>>
    /\ wait_pc = [w \in Waiters |-> [pc |-> "idle", fut |-> 0]]
    /\ lastCall = NoCall

-----------------------------------------------------------------------------
(* Trainer.train: the backend assigns the job id and queues the job, and   *)
(* the trainer builds the ModelFuture                                      *)

train(name, job, save_with_id, path) ==
    /\ futures' = Append(futures,
                         ModelFutureBase_init(name, job, save_with_id, path))
    /\ status' = Append(status, QUEUED)
    /\ cancel_requested' = Append(cancel_requested, FALSE)
    /\ lastCall' = [op |-> "train", fut |-> Len(futures) + 1, arg |-> <<>>,
                    res |-> Ok(<<>>)]
    /\ UNCHANGED wait_pc

\* one job, any save path and flag
TrainSave ==
    /\ futures = <<>>
    /\ \E n \in Names, j \in JobIds, flag \in BOOLEAN, path \in Paths :
           train(n, j, flag, path)

\* several jobs, with train's default save_path=None, save_with_id=False
TrainMany ==
    /\ Len(futures) < MaxFutures
    /\ \E n \in Names, j \in JobIds : train(n, j, FALSE, None)

\* the one job of the lifecycle specification
TrainJob ==
    /\ futures = <<>>
    /\ \E n \in Names, flag \in BOOLEAN, path \in JobPaths :
           train(n, <<"x">>, flag, path)

GetTrainerName(training_id) ==
    /\ lastCall' = [op |-> "get_trainer_name", fut |-> 0, arg |-> training_id,
                    res |-> get_trainer_name(training_id)]
    /\ UNCHANGED <<futures, status, cancel_requested, wait_pc>>

\* get_trainer_name applied to the id of a future
GetTrainerNameOf(f) == GetTrainerName(id(f))

-----------------------------------------------------------------------------
(* The backend's job and the ModelFuture operations a backend implements   *)

BackendStart(f) ==
    /\ status[f] = QUEUED
    /\ status' = [status EXCEPT ![f] = RUNNING]
    /\ UNCHANGED <<futures, cancel_requested, wait_pc, lastCall>>

BackendComplete(f) ==
    /\ status[f] = RUNNING
    /\ status' = [status EXCEPT ![f] = COMPLETED]
    /\ UNCHANGED <<futures, cancel_requested, wait_pc, lastCall>>

BackendError(f) ==
    /\ ~is_terminal(status[f])
    /\ status' = [status EXCEPT ![f] = ERRORED]
    /\ UNCHANGED <<futures, cancel_requested, wait_pc, lastCall>>

BackendCancel(f) ==
    /\ cancel_requested[f]
    /\ ~is_terminal(status[f])
    /\ status' = [status EXCEPT ![f] = CANCELED]
    /\ UNCHANGED <<futures, cancel_requested, wait_pc, lastCall>>

GetStatus(f) ==
    /\ lastCall' = [op |-> "get_status", fut |-> f, arg |-> <<>>,
                    res |-> Ok(status[f])]
    /\ UNCHANGED <<futures, status, cancel_requested, wait_pc>>

Cancel(f) ==
    /\ cancel_requested' =
           IF is_terminal(status[f]) THEN cancel_requested
           ELSE [cancel_requested EXCEPT ![f] = TRUE]
    /\ lastCall' = [op |-> "cancel", fut |-> f, arg |-> <<>>, res |-> Ok(<<>>)]
    /\ UNCHANGED <<futures, status, wait_pc>>

WaitCall(w, f) ==
    /\ wait_pc[w].pc = "idle"
    /\ wait_pc' = [wait_pc EXCEPT ![w] = [pc |-> "waiting", fut |-> f]]
    /\ UNCHANGED <<futures, status, cancel_requested, lastCall>>

WaitReturn(w) ==
    /\ wait_pc[w].pc = "waiting"
    /\ is_terminal(status[wait_pc[w].fut])
    /\ wait_pc' = [wait_pc EXCEPT ![w].pc = "returned"]
    /\ UNCHANGED <<futures, status, cancel_requested, lastCall>>

Load(f) ==
    /\ lastCall' = [op |-> "load", fut |-> f, arg |-> <<>>,
                    res |-> IF status[f] = COMPLETED
                            THEN Ok(<<>>)
                            ELSE Raise("IllegalStateAccess")]
    /\ UNCHANGED <<futures, status, cancel_requested, wait_pc>>

-----------------------------------------------------------------------------
(* Specifications *)

\* one job through its lifecycle, with concurrent callers
Next ==
    \/ TrainJob
    \/ \E f \in DOMAIN futures : BackendStart(f)
    \/ \E f \in DOMAIN futures : BackendComplete(f)
    \/ \E f \in DOMAIN futures : BackendError(f)
    \/ \E f \in DOMAIN futures : BackendCancel(f)
    \/ \E f \in DOMAIN futures : GetStatus(f)
    \/ \E f \in DOMAIN futures : Cancel(f)
    \/ \E f \in DOMAIN futures : Load(f)
    \/ \E f \in DOMAIN futures, w \in Waiters : WaitCall(w, f)
    \/ \E w \in Waiters : WaitReturn(w)

Spec == Init /\ [][Next]_vars

\* a blocked wait whose job is terminal gets to run
FairSpec == Spec /\ \A w \in Waiters : WF_vars(WaitReturn(w))

\* construction of one future over every name, job id, flag and save path
NextSave ==
    \/ TrainSave
    \/ \E f \in DOMAIN futures : GetTrainerNameOf(f)

SpecSave == Init /\ [][NextSave]_vars

\* a sequence of train calls
NextTrain == TrainMany

SpecTrain == Init /\ [][NextTrain]_vars

\* get_trainer_name on any string
NextParse == \E training_id \in LookupIds : GetTrainerName(training_id)

SpecParse == Init /\ [][NextParse]_vars

-----------------------------------------------------------------------------
(* Properties *)

TerminalSet == {COMPLETED, CANCELED, ERRORED}

\* sub occurs in s at some position
Occurs(sub, s) ==
    \E i \in 0..Len(s) :
        i + Len(sub) <= Len(s) /\ SubSeq(s, i + 1, i + Len(sub)) = sub

HasDelimiter(s) == \E i \in 1..Len(s) : s[i] = ":"

\* the position of the last separator of p, 0 when it has none
LastSep(p) ==
    IF \A k \in 1..Len(p) : p[k] # "/" THEN 0
    ELSE CHOOSE k \in 1..Len(p) :
             p[k] = "/" /\ \A m \in (k + 1)..Len(p) : p[m] # "/"

LeafName(p) == SubSeq(p, LastSep(p) + 1, Len(p))

\* the directory part of p, without the separators that end it (kept when it
\* is only separators: the root)
ParentDir(p) ==
    LET h == SubSeq(p, 1, LastSep(p))
    IN IF \A k \in 1..Len(h) : h[k] = "/" THEN h
       ELSE SubSeq(h, 1, CHOOSE k \in 1..Len(h) :
                             h[k] # "/" /\ \A m \in (k + 1)..Len(h) : h[m] = "/")

\* a joined with a relative b: one separator between them unless a is empty
\* or brings its own
Joined(a, b) ==
    IF a = <<>> THEN b
    ELSE IF a[Len(a)] = "/" THEN a \o b
    ELSE a \o <<"/">> \o b

\* C1: for every trainer name n and job id j (also one containing ':'), the
\* id of the future built from them decodes back to n: get_trainer_name(id)
\* returns n, both evaluated on the id and as the recorded result of a call.
C1_TrainerNameRoundTrip ==
    \A f \in DOMAIN futures :
        /\ get_trainer_name(id(f)) = Ok(futures[f].parent_name)
        /\ (lastCall.op = "get_trainer_name" /\ lastCall.arg = id(f))
               => lastCall.res = Ok(futures[f].parent_name)

C1_Witness ==
    \E f \in DOMAIN futures :
        /\ futures[f].parent_name = <<":">>
        /\ futures[f].training_id = <<":">>
        /\ lastCall.op = "get_trainer_name"
        /\ lastCall.arg = <<"y", ":", ":">>
        /\ lastCall.res = Ok(<<":">>)

\* C2: TrainingStatus has exactly five members; is_terminal is true exactly
\* for COMPLETED, CANCELED, ERRORED and false exactly for QUEUED, RUNNING, for
\* every member and for every status a job is observed in.
C2_IsTerminalExact ==
    /\ Cardinality(TrainingStatus) = 5
    /\ \A s \in TrainingStatus :
           /\ is_terminal(s) <=> s \in {COMPLETED, CANCELED, ERRORED}
           /\ ~is_terminal(s) <=> s \in {QUEUED, RUNNING}
    /\ \A f \in DOMAIN status :
           /\ status[f] \in TrainingStatus
           /\ is_terminal(status[f]) <=> status[f] \in {COMPLETED, CANCELED, ERRORED}

C2_Witness ==
    \E f \in DOMAIN status :
        /\ status[f] = CANCELED
        /\ lastCall.op = "get_status"
        /\ lastCall.res.val = CANCELED
        /\ is_terminal(lastCall.res.val)

\* C3: a present base path, save_with_id true, the id not a substring of the
\* base path: the save path is the parent directory joined with the id
\* joined with the leaf name, for every shape of base path.
C3_IdInjectedAboveLeaf ==
    \A f \in DOMAIN futures :
        LET fut == futures[f]
            base == fut.base_path.s
        IN (fut.base_path.some /\ fut.save_with_id /\ ~Occurs(fut._id, base))
               => fut._save_path =
                      Some(Joined(Joined(ParentDir(base), fut._id), LeafName(base)))

\* a base path ending in a separator, under a parent directory
C3_Witness ==
    \E f \in DOMAIN futures :
        /\ futures[f].save_with_id
        /\ futures[f].base_path = Some(<<"/", "x", "/">>)
        /\ futures[f]._id = <<"x", ":", "x">>
        /\ futures[f]._save_path = Some(<<"/", "x", "/", "x", ":", "x", "/">>)

\* C4: the save path is the base path unchanged when the base path is absent,
\* or save_with_id is false, or the id occurs anywhere in the base path.
C4_BasePathKept ==
    \A f \in DOMAIN futures :
        LET fut == futures[f]
        IN (\/ ~fut.base_path.some
            \/ ~fut.save_with_id
            \/ Occurs(fut._id, fut.base_path.s))
               => fut._save_path = fut.base_path

\* the id occurs inside a segment, not as a whole segment
C4_Witness ==
    \E f \in DOMAIN futures :
        /\ futures[f].save_with_id
        /\ futures[f]._id = <<"x", ":">>
        /\ futures[f].base_path = Some(<<"x", "x", ":", "x">>)
        /\ futures[f]._save_path = futures[f].base_path

\* C5 as claimed: get_trainer_name fails for every id without the delimiter.
C5_NoDelimiterFails ==
    (lastCall.op = "get_trainer_name" /\ ~HasDelimiter(lastCall.arg))
        => ~lastCall.res.ok

\* C5 amended: on an id without the delimiter get_trainer_name decodes the
\* whole id: it fails, with the decoder's InvalidToken, exactly when the id
\* is not a valid token, and returns the name the id encodes otherwise.
C5_NoDelimiterDecodesWholeId ==
    (lastCall.op = "get_trainer_name" /\ ~HasDelimiter(lastCall.arg))
        => /\ lastCall.res.ok
                  <=> \A i \in 1..Len(lastCall.arg) : lastCall.arg[i] \in TokenChars
           /\ lastCall.res.ok => ReversibleHasher_hash(lastCall.res.val) = lastCall.arg
           /\ ~lastCall.res.ok => lastCall.res.err = "InvalidToken"

C5_Witness ==
    /\ lastCall.op = "get_trainer_name"
    /\ lastCall.arg = <<"x", "x">>
    /\ lastCall.res = Ok(<<"a", "a">>)

\* C6: id and save_path of a future return the same values in every later
\* state, whatever get_status, cancel, wait, load and the backend do.
C6_IdAndSavePathFixed ==
    [][\A f \in DOMAIN futures :
           /\ id(f)' = id(f)
           /\ save_path(f)' = save_path(f)]_vars

C6_Witness ==
    \E f \in DOMAIN futures :
        /\ status[f] = COMPLETED
        /\ cancel_requested[f]
        /\ \E w \in Waiters : wait_pc[w].pc = "returned"
        /\ lastCall.op = "load"
        /\ id(f) = <<"x", ":", "x">>
        /\ save_path(f) = Some(<<"x", "/", "x", ":", "x", "/", "x">>)

\* C7: two futures whose (trainer name, job id) pairs differ never have equal
\* composite ids.
C7_IdsUnique ==
    \A f, g \in DOMAIN futures :
        <<futures[f].parent_name, futures[f].training_id>>
            # <<futures[g].parent_name, futures[g].training_id>>
        => id(f) # id(g)

\* two pairs that differ only in where the halves are cut
C7_Witness ==
    /\ Len(futures) >= 2
    /\ futures[1].parent_name = <<"a">> /\ futures[1].training_id = <<>>
    /\ futures[2].parent_name = <<>> /\ futures[2].training_id = <<"x">>
    /\ id(1) # id(2)

\* C8: a status of COMPLETED, CANCELED or ERRORED never changes again, and a
\* get_status call on such a job returns that member.
C8_TerminalIsFinal ==
    [][\A f \in DOMAIN status :
           status[f] \in TerminalSet
               => /\ status'[f] = status[f]
                  /\ GetStatus(f) => lastCall'.res = Ok(status[f])]_vars

\* cancel was requested but the job completed first, and is seen COMPLETED
C8_Witness ==
    \E f \in DOMAIN status :
        /\ status[f] = COMPLETED
        /\ cancel_requested[f]
        /\ lastCall.op = "get_status"
        /\ lastCall.res = Ok(COMPLETED)

\* C9: no wait returns while its job is QUEUED or RUNNING, and every caller
\* blocked in wait on a terminal job eventually returns.
C9_WaitersReturnWhenTerminal ==
    /\ [][\A w \in Waiters :
              (wait_pc[w].pc = "waiting" /\ wait_pc'[w].pc = "returned")
                  => status[wait_pc[w].fut] \in TerminalSet]_vars
    /\ [](\A w \in Waiters :
              wait_pc[w].pc = "returned" => status[wait_pc[w].fut] \in TerminalSet)
    /\ \A w \in Waiters :
           (wait_pc[w].pc = "waiting" /\ status[wait_pc[w].fut] \in TerminalSet)
               ~> (wait_pc[w].pc = "returned")

C9_Witness ==
    /\ \A w \in Waiters : wait_pc[w].pc = "returned" /\ wait_pc[w].fut = 1
    /\ status[1] = ERRORED

\* C10: a cancel call on a terminal job does not raise and changes neither
\* the status nor the pending cancel request.
C10_CancelAfterTerminalNoOp ==
    [][\A f \in DOMAIN futures :
           (status[f] \in TerminalSet /\ Cancel(f))
               => /\ status' = status
                  /\ cancel_requested' = cancel_requested
                  /\ lastCall'.res.ok]_vars

C10_Witness ==
    \E f \in DOMAIN futures :
        /\ status[f] = ERRORED
        /\ ~cancel_requested[f]
        /\ lastCall.op = "cancel"
        /\ lastCall.fut = f
        /\ lastCall.res.ok

====
